---------------------------- MODULE Spec2Model ----------------------------
(***************************************************************************)
(* The pay calculator of bradmode-tools (components/tools/PayslipCalculator *)
(* and the page around it) as a state machine.                              *)
(*                                                                         *)
(* JavaScript numbers are modelled as NaN, +/-Infinity, or an exact        *)
(* rational num/den with an arbitrary-precision numerator and denominator  *)
(* (TLC's integers are 32 bits wide; the products the calculator forms are *)
(* not).  Rounding of IEEE doubles is not modelled: every finite value is  *)
(* the exact real the expression denotes.                                  *)
(***************************************************************************)
EXTENDS Integers, Sequences, FiniteSets, TLC

(***************************************************************************)
(* Arbitrary-precision naturals: little-endian sequences of limbs in       *)
(* 0..9999 without leading (last) zero limbs; << >> is zero.               *)
(***************************************************************************)
RECURSIVE BStrip(_)
BStrip(a) ==
    IF a = << >> THEN << >>
    ELSE IF a[Len(a)] = 0 THEN BStrip(SubSeq(a, 1, Len(a) - 1))
    ELSE a

RECURSIVE BFromNat(_)
BFromNat(n) ==
    IF n = 0 THEN << >> ELSE <<n % 10000>> \o BFromNat(n \div 10000)

BHead(a) == IF a = << >> THEN 0 ELSE Head(a)
BTail(a) == IF a = << >> THEN << >> ELSE Tail(a)

RECURSIVE BAddC(_, _, _)
BAddC(a, b, c) ==
    IF a = << >> /\ b = << >>
    THEN (IF c = 0 THEN << >> ELSE <<c>>)
    ELSE LET x == BHead(a) + BHead(b) + c
         IN  <<x % 10000>> \o BAddC(BTail(a), BTail(b), x \div 10000)

BAdd(a, b) == BAddC(a, b, 0)

\* a - b for a >= b
RECURSIVE BSubC(_, _, _)
BSubC(a, b, c) ==
    IF a = << >> THEN << >>
    ELSE LET x == Head(a) - BHead(b) - c
         IN  IF x < 0
             THEN <<x + 10000>> \o BSubC(Tail(a), BTail(b), 1)
             ELSE <<x>> \o BSubC(Tail(a), BTail(b), 0)

BSub(a, b) == BStrip(BSubC(a, b, 0))

\* -1, 0, 1 as a < b, a = b, a > b
RECURSIVE BCmpAt(_, _, _)
BCmpAt(a, b, i) ==
    IF i = 0 THEN 0
    ELSE IF a[i] < b[i] THEN -1
    ELSE IF a[i] > b[i] THEN 1
    ELSE BCmpAt(a, b, i - 1)

BCmp(a, b) ==
    IF Len(a) < Len(b) THEN -1
    ELSE IF Len(a) > Len(b) THEN 1
    ELSE BCmpAt(a, b, Len(a))

RECURSIVE BMulLimb(_, _, _)
BMulLimb(a, k, c) ==
    IF a = << >> THEN (IF c = 0 THEN << >> ELSE <<c>>)
    ELSE LET x == Head(a) * k + c
         IN  <<x % 10000>> \o BMulLimb(Tail(a), k, x \div 10000)

RECURSIVE BMul(_, _)
BMul(a, b) ==
    IF a = << >> \/ b = << >> THEN << >>
    ELSE BAdd(BStrip(BMulLimb(a, Head(b), 0)),
              LET r == BMul(a, Tail(b)) IN IF r = << >> THEN << >> ELSE <<0>> \o r)

(***************************************************************************)
(* JavaScript numbers.  k is "num" (neg, num, den: the rational            *)
(* (-1)^neg * num/den, den > 0, zero has neg = FALSE), "nan", or "inf"     *)
(* (neg gives the sign).                                                   *)
(***************************************************************************)
NaN == [k |-> "nan", neg |-> FALSE, num |-> << >>, den |-> <<1>>]
Infinity == [k |-> "inf", neg |-> FALSE, num |-> << >>, den |-> <<1>>]
NegInfinity == [k |-> "inf", neg |-> TRUE, num |-> << >>, den |-> <<1>>]

\* num/den with the common factors 10000 cancelled (0 is 0/1): the same number
RECURSIVE MkNum(_, _, _)
MkNum(neg, num, den) ==
    IF num = << >> THEN [k |-> "num", neg |-> FALSE, num |-> << >>, den |-> <<1>>]
    ELSE IF Head(num) = 0 /\ Head(den) = 0 THEN MkNum(neg, Tail(num), Tail(den))
    ELSE [k |-> "num", neg |-> neg, num |-> num, den |-> den]

\* the integer n
Int2Num(n) == IF n < 0 THEN MkNum(TRUE, BFromNat(0 - n), <<1>>)
              ELSE MkNum(FALSE, BFromNat(n), <<1>>)

\* the decimal literal n / d, such as 26.09 = Dec(2609, 100)
Dec(n, d) == MkNum(FALSE, BFromNat(n), BFromNat(d))

IsNaN(a) == a.k = "nan"
IsNum(a) == a.k = "num"
IsZero(a) == a.k = "num" /\ a.num = << >>

NNeg(a) ==
    IF a.k = "nan" THEN NaN
    ELSE IF a.k = "inf" THEN [a EXCEPT !.neg = ~a.neg]
    ELSE MkNum(~a.neg, a.num, a.den)

\* sign of a finite or infinite number: -1, 0, 1
NSign(a) == IF a.k = "inf" THEN (IF a.neg THEN -1 ELSE 1)
            ELSE IF a.num = << >> THEN 0
            ELSE IF a.neg THEN -1 ELSE 1

\* signed magnitudes x (sign sx) + y (sign sy)
SAdd(xneg, x, yneg, y, den) ==
    IF xneg = yneg THEN MkNum(xneg, BAdd(x, y), den)
    ELSE IF BCmp(x, y) >= 0 THEN MkNum(xneg, BSub(x, y), den)
    ELSE MkNum(yneg, BSub(y, x), den)

NAdd(a, b) ==
    IF a.k = "nan" \/ b.k = "nan" THEN NaN
    ELSE IF a.k = "inf" /\ b.k = "inf" THEN (IF a.neg = b.neg THEN a ELSE NaN)
    ELSE IF a.k = "inf" THEN a
    ELSE IF b.k = "inf" THEN b
    ELSE IF a.den = b.den THEN SAdd(a.neg, a.num, b.neg, b.num, a.den)
    ELSE SAdd(a.neg, BMul(a.num, b.den), b.neg, BMul(b.num, a.den),
              BMul(a.den, b.den))

NSub(a, b) == NAdd(a, NNeg(b))

NMul(a, b) ==
    IF a.k = "nan" \/ b.k = "nan" THEN NaN
    ELSE IF a.k = "inf" \/ b.k = "inf"
         THEN (IF NSign(a) = 0 \/ NSign(b) = 0 THEN NaN
               ELSE IF NSign(a) = NSign(b) THEN Infinity ELSE NegInfinity)
    ELSE MkNum(a.neg # b.neg, BMul(a.num, b.num), BMul(a.den, b.den))

NDiv(a, b) ==
    IF a.k = "nan" \/ b.k = "nan" THEN NaN
    ELSE IF a.k = "inf" THEN (IF b.k = "inf" THEN NaN
                              ELSE IF a.neg = b.neg THEN Infinity ELSE NegInfinity)
    ELSE IF b.k = "inf" THEN Int2Num(0)
    ELSE IF b.num = << >>
         THEN (IF a.num = << >> THEN NaN
               ELSE IF a.neg THEN NegInfinity ELSE Infinity)
    ELSE MkNum(a.neg # b.neg, BMul(a.num, b.den), BMul(a.den, b.num))

\* -1, 0, 1 as a < b, a = b, a > b, for a and b not NaN
NCmp(a, b) ==
    IF a.k = "inf" \/ b.k = "inf"
    THEN (IF a.k = "inf" /\ b.k = "inf"
          THEN (IF a.neg = b.neg THEN 0 ELSE IF a.neg THEN -1 ELSE 1)
          ELSE IF a.k = "inf" THEN (IF a.neg THEN -1 ELSE 1)
          ELSE (IF b.neg THEN 1 ELSE -1))
    ELSE IF NSign(a) # NSign(b) THEN (IF NSign(a) < NSign(b) THEN -1 ELSE 1)
    ELSE IF NSign(a) = 0 THEN 0
    ELSE LET c == BCmp(BMul(a.num, b.den), BMul(b.num, a.den))
         IN  IF a.neg THEN 0 - c ELSE c

\* the comparison operators: every comparison with NaN is false
NEq(a, b)  == a.k # "nan" /\ b.k # "nan" /\ NCmp(a, b) = 0
NLt(a, b)  == a.k # "nan" /\ b.k # "nan" /\ NCmp(a, b) < 0
NLeq(a, b) == a.k # "nan" /\ b.k # "nan" /\ NCmp(a, b) <= 0
NGt(a, b)  == NLt(b, a)
NGeq(a, b) == NLeq(b, a)

\* Math.min(a, b)
\* mutant: the first argument is returned whatever the second is
MathMin_NoCap(a, b) == a

MathMin(a, b) ==
    IF a.k = "nan" \/ b.k = "nan" THEN NaN
    ELSE IF NCmp(a, b) <= 0 THEN a ELSE b

\* a || b on numbers: b when a is falsy (0 or NaN)
OrDefault(a, b) == IF a.k = "nan" \/ IsZero(a) THEN b ELSE a


(***************************************************************************)
(* Strings are TLA+ strings; Char(s, i) is s.charAt(i - 1) ("" past the    *)
(* end).                                                                   *)
(***************************************************************************)
Char(s, i) == IF i >= 1 /\ i <= Len(s) THEN SubSeq(s, i, i) ELSE ""

Digits == {"0", "1", "2", "3", "4", "5", "6", "7", "8", "9"}

DigitVal(c) ==
    CASE c = "0" -> 0 [] c = "1" -> 1 [] c = "2" -> 2 [] c = "3" -> 3
      [] c = "4" -> 4 [] c = "5" -> 5 [] c = "6" -> 6 [] c = "7" -> 7
      [] c = "8" -> 8 [] c = "9" -> 9

\* the run of digits of s from index i on, appended to the decimal numeral
\* n: [n: the numeral's value, e: the index after the run, c: digits read]
RECURSIVE ScanDigits(_, _, _, _)
ScanDigits(s, i, n, c) ==
    IF Char(s, i) \in Digits
    THEN ScanDigits(s, i + 1,
                    BAdd(BStrip(BMulLimb(n, 10, 0)), BFromNat(DigitVal(Char(s, i)))),
                    c + 1)
    ELSE [n |-> n, e |-> i, c |-> c]

RECURSIVE SkipSpace(_, _)
SkipSpace(s, i) == IF Char(s, i) = " " THEN SkipSpace(s, i + 1) ELSE i

RECURSIVE BPow10(_)
BPow10(c) == IF c = 0 THEN <<1>> ELSE BStrip(BMulLimb(BPow10(c - 1), 10, 0))

\* parseFloat(s): the longest prefix of s (after leading blanks) that is a
\* decimal literal [+-]digits[.digits], NaN when there is none.  Exponents
\* and the literal "Infinity" are not read (no input drawn here has one).
ParseFloat(s) ==
    LET i0   == SkipSpace(s, 1)
        neg  == Char(s, i0) = "-"
        i1   == IF Char(s, i0) \in {"+", "-"} THEN i0 + 1 ELSE i0
        ip   == ScanDigits(s, i1, << >>, 0)
        fp   == IF Char(s, ip.e) = "." THEN ScanDigits(s, ip.e + 1, ip.n, 0)
                ELSE [n |-> ip.n, e |-> ip.e, c |-> 0]
    IN  IF ip.c + fp.c = 0 THEN NaN
        ELSE MkNum(neg, fp.n, BPow10(fp.c))

(***************************************************************************)
(* Dates.  A Date is [valid, t]: t is getTime() in hours (every instant    *)
(* formed here is a whole number of hours, so 1000*60*60*24 ms is 24 of    *)
(* them).  tz is the local time zone's offset from UTC in hours.           *)
(***************************************************************************)
InvalidDate == [valid |-> FALSE, t |-> 0]

\* days from 1970-01-01 to the civil date y-m-d (m in 1..12)
DaysFromCivil(y, m, d) ==
    LET yy  == IF m <= 2 THEN y - 1 ELSE y
        era == yy \div 400
        yoe == yy - era * 400
        doy == (153 * (IF m > 2 THEN m - 3 ELSE m + 9) + 2) \div 5 + d - 1
        doe == yoe * 365 + yoe \div 4 - yoe \div 100 + doy
    IN  era * 146097 + doe - 719468

\* the civil date [y, m] (m in 1..12) of day number z
CivilFromDays(z) ==
    LET zz  == z + 719468
        era == zz \div 146097
        doe == zz - era * 146097
        yoe == (doe - doe \div 1460 + doe \div 36524 - doe \div 146096) \div 365
        doy == doe - (365 * yoe + yoe \div 4 - yoe \div 100)
        mp  == (5 * doy + 2) \div 153
        m   == IF mp < 10 THEN mp + 3 ELSE mp - 9
    IN  [y |-> yoe + era * 400 + (IF m <= 2 THEN 1 ELSE 0), m |-> m]

IsLeap(y) == (y % 4 = 0 /\ y % 100 # 0) \/ y % 400 = 0

DaysInMonth(y, m) ==
    IF m = 2 THEN (IF IsLeap(y) THEN 29 ELSE 28)
    ELSE IF m \in {4, 6, 9, 11} THEN 30 ELSE 31

Dig(s, i) == DigitVal(Char(s, i))

\* new Date(s) for the value of an <input type="date">: "YYYY-MM-DD" is UTC
\* midnight of that day; any other string drawn here is an Invalid Date.
NewDate(s) ==
    IF /\ Len(s) = 10
       /\ \A i \in {1, 2, 3, 4, 6, 7, 9, 10} : Char(s, i) \in Digits
       /\ Char(s, 5) = "-" /\ Char(s, 8) = "-"
    THEN LET y == Dig(s, 1) * 1000 + Dig(s, 2) * 100 + Dig(s, 3) * 10 + Dig(s, 4)
             m == Dig(s, 6) * 10 + Dig(s, 7)
             d == Dig(s, 9) * 10 + Dig(s, 10)
         IN  IF m >= 1 /\ m <= 12 /\ d >= 1 /\ d <= DaysInMonth(y, m)
             THEN [valid |-> TRUE, t |-> DaysFromCivil(y, m, d) * 24]
             ELSE InvalidDate
    ELSE InvalidDate

\* date.getFullYear() and date.getMonth() (0..11), in local time
LocalYM(date, zone) == CivilFromDays((date.t + zone) \div 24)

\* new Date(year, 6, 1): local midnight of 1 July
NewDateJuly1(year, zone) ==
    [valid |-> TRUE, t |-> DaysFromCivil(year, 7, 1) * 24 - zone]


(***************************************************************************)
(* The reference tables.                                                   *)
(***************************************************************************)
TaxYears == {"2024-25", "2025-26"}

Bracket(min, max, rate, offset) ==
    [min |-> Int2Num(min), max |-> max, rate |-> rate, offset |-> Int2Num(offset)]

taxBrackets(year) ==
    IF year = "2024-25"
    THEN << Bracket(0, Int2Num(18200), Int2Num(0), 0),
            Bracket(18201, Int2Num(45000), Dec(19, 100), 0),
            Bracket(45001, Int2Num(120000), Dec(325, 1000), 5092),
            Bracket(120001, Int2Num(180000), Dec(37, 100), 29467),
            Bracket(180001, Infinity, Dec(45, 100), 51667) >>
    ELSE << Bracket(0, Int2Num(18200), Int2Num(0), 0),
            Bracket(18201, Int2Num(45000), Dec(16, 100), 0),
            Bracket(45001, Int2Num(135000), Dec(30, 100), 4288),
            Bracket(135001, Int2Num(190000), Dec(37, 100), 31288),
            Bracket(190001, Infinity, Dec(45, 100), 51638) >>

medicareLevy(year) == Dec(2, 100)

superRates(year) == IF year = "2024-25" THEN Dec(115, 1000) ELSE Dec(12, 100)

medicareLevyThresholds(year) ==
    [lower |-> Int2Num(27222), upper |-> Int2Num(34027)]

MlsBracket(min, max, rate) ==
    [min |-> Int2Num(min), max |-> max, rate |-> rate]

mlsThresholds(year) ==
    IF year = "2024-25"
    THEN << MlsBracket(0, Int2Num(97000), Int2Num(0)),
            MlsBracket(97001, Int2Num(113000), Dec(1, 100)),
            MlsBracket(113001, Int2Num(151000), Dec(125, 10000)),
            MlsBracket(151001, Infinity, Dec(15, 1000)) >>
    ELSE << MlsBracket(0, Int2Num(101000), Int2Num(0)),
            MlsBracket(101001, Int2Num(118000), Dec(1, 100)),
            MlsBracket(118001, Int2Num(158000), Dec(125, 10000)),
            MlsBracket(158001, Infinity, Dec(15, 1000)) >>

(***************************************************************************)
(* The calculation functions.                                              *)
(***************************************************************************)
\* the index of the first bracket of bs, from i on, whose [min, max] holds
\* income; 0 when the loop ends without one
RECURSIVE FirstBracket(_, _, _)
FirstBracket(bs, income, i) ==
    IF i > Len(bs) THEN 0
    ELSE IF NGeq(income, bs[i].min) /\ NLeq(income, bs[i].max) THEN i
    ELSE FirstBracket(bs, income, i + 1)

\* mutant: the + 1 of the formula left out
BracketTax_NoPlusOne(bracket, taxableIncome) ==
    NAdd(bracket.offset, NMul(NSub(taxableIncome, bracket.min), bracket.rate))

\* mutant: (bracket.rate || 0.16), a zero rate taken for a missing one
BracketTax_RateOrDefault(bracket, taxableIncome) ==
    NAdd(bracket.offset,
         NMul(NAdd(NSub(taxableIncome, bracket.min), Int2Num(1)),
              OrDefault(bracket.rate, Dec(16, 100))))

\* bracket.offset + (taxableIncome - bracket.min + 1) * bracket.rate
BracketTax(bracket, taxableIncome) ==
    NAdd(bracket.offset,
         NMul(NAdd(NSub(taxableIncome, bracket.min), Int2Num(1)), bracket.rate))

calculateTax(taxableIncome, year) ==
    LET brackets == taxBrackets(year)
        i == FirstBracket(brackets, taxableIncome, 1)
    IN  IF i = 0 THEN Int2Num(0) ELSE BracketTax(brackets[i], taxableIncome)

\* mutant: the reduction itself used as the factor, not 1 - reduction
calculateMedicareLevy_ReductionAsFactor(taxableIncome, year) ==
    LET thresholds == medicareLevyThresholds(year)
        rate == medicareLevy(year)
    IN  IF NLeq(taxableIncome, thresholds.lower) THEN Int2Num(0)
        ELSE IF NLeq(taxableIncome, thresholds.upper)
        THEN LET reduction == NDiv(NSub(thresholds.upper, taxableIncome),
                                   NSub(thresholds.upper, thresholds.lower))
             IN  NMul(NMul(taxableIncome, rate), reduction)
        ELSE NMul(taxableIncome, rate)

calculateMedicareLevy(taxableIncome, year) ==
    LET thresholds == medicareLevyThresholds(year)
        rate == medicareLevy(year)
    IN  IF NLeq(taxableIncome, thresholds.lower) THEN Int2Num(0)
        ELSE IF NLeq(taxableIncome, thresholds.upper)
        THEN LET reduction == NDiv(NSub(thresholds.upper, taxableIncome),
                                   NSub(thresholds.upper, thresholds.lower))
             IN  NMul(NMul(taxableIncome, rate), NSub(Int2Num(1), reduction))
        ELSE NMul(taxableIncome, rate)

\* mutant: the insurance flag is not consulted
calculateMedicareLevySurcharge_IgnoresInsurance(taxableIncome, year, hasInsurance) ==
    LET thresholds == mlsThresholds(year)
        i == FirstBracket(thresholds, taxableIncome, 1)
    IN  IF i = 0 THEN Int2Num(0)
        ELSE NMul(taxableIncome, thresholds[i].rate)

calculateMedicareLevySurcharge(taxableIncome, year, hasInsurance) ==
    IF hasInsurance THEN Int2Num(0)
    ELSE LET thresholds == mlsThresholds(year)
             i == FirstBracket(thresholds, taxableIncome, 1)
         IN  IF i = 0 THEN Int2Num(0)
             ELSE NMul(taxableIncome, thresholds[i].rate)

PayFrequencies == {"weekly", "fortnightly", "monthly", "quarterly"}

\* mutant: a year of 52 weeks, 26 fortnights
getPayPeriodsPerYear_WholeWeeks(frequency) ==
    CASE frequency = "weekly" -> Int2Num(52)
      [] frequency = "fortnightly" -> Int2Num(26)
      [] frequency = "monthly" -> Int2Num(12)
      [] frequency = "quarterly" -> Int2Num(4)
      [] OTHER -> Int2Num(26)

getPayPeriodsPerYear(frequency) ==
    CASE frequency = "weekly" -> Dec(5218, 100)
      [] frequency = "fortnightly" -> Dec(2609, 100)
      [] frequency = "monthly" -> Int2Num(12)
      [] frequency = "quarterly" -> Int2Num(4)
      [] OTHER -> Dec(2609, 100)

\* the period's days as the fraction n/d
PayPeriodDaysFrac(frequency) ==
    CASE frequency = "weekly" -> [n |-> 7, d |-> 1]
      [] frequency = "fortnightly" -> [n |-> 14, d |-> 1]
      [] frequency = "monthly" -> [n |-> 3044, d |-> 100]
      [] frequency = "quarterly" -> [n |-> 9133, d |-> 100]
      [] OTHER -> [n |-> 14, d |-> 1]

getPayPeriodDays(frequency) ==
    Dec(PayPeriodDaysFrac(frequency).n, PayPeriodDaysFrac(frequency).d)


(***************************************************************************)
(* calculateResults.                                                       *)
(***************************************************************************)
\* results before the first setResults
Null == [null |-> TRUE]

\* the early return: a required field is the empty string
MissingRequired(inp) ==
    \/ inp.annualSalary = ""
    \/ inp.payDate = ""
    \/ inp.periodEndDate = ""
    \/ inp.employmentStartDate = ""

\* Math.floor((payDate.getTime() - ytdStartDate.getTime()) / (1000*60*60*24))
DaysDiff(payDate, ytdStartDate) ==
    IF payDate.valid /\ ytdStartDate.valid
    THEN Int2Num((payDate.t - ytdStartDate.t) \div 24)
    ELSE NaN

\* new Date(payDate.getFullYear() - (payDate.getMonth() < 6 ? 1 : 0), 6, 1)
FinancialYearStart(payDate, zone) ==
    IF payDate.valid
    THEN LET ym == LocalYM(payDate, zone)
         IN  NewDateJuly1(ym.y - (IF ym.m - 1 < 6 THEN 1 ELSE 0), zone)
    ELSE InvalidDate

\* employmentStart > financialYearStart ? employmentStart : financialYearStart
YtdStartDate(employmentStart, financialYearStart) ==
    IF employmentStart.valid /\ financialYearStart.valid
       /\ employmentStart.t > financialYearStart.t
    THEN employmentStart
    ELSE financialYearStart

\* mutant: the days are counted up to the period end, not the pay date
ElapsedDays_ToPeriodEnd(inp, zone) ==
    LET payDate == NewDate(inp.payDate)
        employmentStart == NewDate(inp.employmentStartDate)
        financialYearStart == FinancialYearStart(payDate, zone)
    IN  DaysDiff(NewDate(inp.periodEndDate),
                 YtdStartDate(employmentStart, financialYearStart))

\* daysDiff of the inputs: whole days from ytdStartDate to payDate
ElapsedDays(inp, zone) ==
    LET payDate == NewDate(inp.payDate)
        employmentStart == NewDate(inp.employmentStartDate)
        financialYearStart == FinancialYearStart(payDate, zone)
    IN  DaysDiff(payDate, YtdStartDate(employmentStart, financialYearStart))

\* ytdProportion = daysDiff / yearDays, yearDays = 365.25
YtdProportion(inp, zone) == NDiv(ElapsedDays(inp, zone), Dec(36525, 100))

\* Math.floor(daysDiff / payPeriodDays) + 1, daysDiff an integer or NaN
PeriodsToDate(payDate, ytdStartDate, frequency) ==
    IF payDate.valid /\ ytdStartDate.valid
    THEN LET d == (payDate.t - ytdStartDate.t) \div 24
             p == PayPeriodDaysFrac(frequency)
         IN  Int2Num(((d * p.d) \div p.n) + 1)
    ELSE NaN

\* annualTax / periodsPerYear, annualTax = calculateTax(income, year)
TaxPerPeriod(income, year, frequency) ==
    NDiv(calculateTax(income, year), getPayPeriodsPerYear(frequency))

\* mutant: the Medicare charges are not deducted
NetPay_NoMedicare(grossPay, taxPerPeriod, totalMedicareChargesPerPeriod) ==
    NSub(grossPay, taxPerPeriod)

\* grossPay - taxPerPeriod - totalMedicareChargesPerPeriod
NetPay(grossPay, taxPerPeriod, totalMedicareChargesPerPeriod) ==
    NSub(NSub(grossPay, taxPerPeriod), totalMedicareChargesPerPeriod)

\* mutant: the fte field is not read
ParseFte_Ignored(s) == Dec(10, 10)

\* mutant: the Medicare charges are not taken off the ceiling of the net
YtdMaxNet_NoMedicare(ytdMaxGross, ytdMaxTax, ytdMaxTotalMedicareCharges) ==
    NSub(ytdMaxGross, ytdMaxTax)

\* ytdMaxNet = ytdMaxGross - ytdMaxTax - ytdMaxTotalMedicareCharges
YtdMaxNet(ytdMaxGross, ytdMaxTax, ytdMaxTotalMedicareCharges) ==
    NSub(NSub(ytdMaxGross, ytdMaxTax), ytdMaxTotalMedicareCharges)

\* mutant: the divisor is the full-time hours of a year, without fte
HourlyRate_FullTimeHours(effectiveAnnualSalary, fullTimeHours, fte) ==
    NDiv(effectiveAnnualSalary, NMul(Dec(5218, 100), fullTimeHours))

\* effectiveAnnualSalary / (52.18 * fullTimeHours * fte)
HourlyRate(effectiveAnnualSalary, fullTimeHours, fte) ==
    NDiv(effectiveAnnualSalary, NMul(NMul(Dec(5218, 100), fullTimeHours), fte))

\* parseFloat(inputs.fte) || 1.0
ParseFte(s) == OrDefault(ParseFloat(s), Dec(10, 10))

\* mutant: parseFloat(inputs.fullTimeHours) without the default
ParseFullTimeHours_NoDefault(s) == ParseFloat(s)

\* parseFloat(inputs.fullTimeHours) || 38
ParseFullTimeHours(s) == OrDefault(ParseFloat(s), Int2Num(38))

\* the record handed to setResults
ComputeResults(inp, zone) ==
    LET annualSalary == ParseFloat(inp.annualSalary)
        fullTimeHours == ParseFullTimeHours(inp.fullTimeHours)
        fte == ParseFte(inp.fte)
        periodsPerYear == getPayPeriodsPerYear(inp.payFrequency)
        payPeriodDays == getPayPeriodDays(inp.payFrequency)
        effectiveAnnualSalary == NMul(annualSalary, fte)
        grossPay == NDiv(effectiveAnnualSalary, periodsPerYear)
        annualTax == calculateTax(effectiveAnnualSalary, inp.taxYear)
        taxPerPeriod == TaxPerPeriod(effectiveAnnualSalary, inp.taxYear, inp.payFrequency)
        annualMedicareLevy == calculateMedicareLevy(effectiveAnnualSalary, inp.taxYear)
        annualMedicareLevySurcharge ==
            calculateMedicareLevySurcharge(effectiveAnnualSalary, inp.taxYear,
                                           inp.hasPrivateHealthInsurance)
        annualTotalMedicareCharges == NAdd(annualMedicareLevy, annualMedicareLevySurcharge)
        medicareLevyPerPeriod == NDiv(annualMedicareLevy, periodsPerYear)
        medicareLevySurchargePerPeriod == NDiv(annualMedicareLevySurcharge, periodsPerYear)
        totalMedicareChargesPerPeriod == NDiv(annualTotalMedicareCharges, periodsPerYear)
        netPay == NetPay(grossPay, taxPerPeriod, totalMedicareChargesPerPeriod)
        superRate == superRates(inp.taxYear)
        superannuation == NMul(grossPay, superRate)
        hoursPerPeriod == NDiv(NMul(NMul(fullTimeHours, fte), payPeriodDays), Int2Num(7))
        annualLeaveDaysPerYear == NMul(Int2Num(20), fte)
        workingDaysPerYear == Dec(26087, 100)
        annualLeaveAccrualRate == NDiv(annualLeaveDaysPerYear, workingDaysPerYear)
        workingDaysThisPeriod == NDiv(NMul(payPeriodDays, Int2Num(5)), Int2Num(7))
        annualLeaveAccrualDays == NMul(workingDaysThisPeriod, annualLeaveAccrualRate)
        hoursPerDay == NDiv(fullTimeHours, Int2Num(5))
        annualLeaveAccrualHours == NMul(annualLeaveAccrualDays, hoursPerDay)
        payDate == NewDate(inp.payDate)
        employmentStart == NewDate(inp.employmentStartDate)
        financialYearStart == FinancialYearStart(payDate, zone)
        ytdStartDate == YtdStartDate(employmentStart, financialYearStart)
        ytdProportion == YtdProportion(inp, zone)
        ytdMaxGross == NMul(effectiveAnnualSalary, ytdProportion)
        ytdMaxTax == NMul(annualTax, ytdProportion)
        ytdMaxMedicareLevy == NMul(annualMedicareLevy, ytdProportion)
        ytdMaxMedicareLevySurcharge == NMul(annualMedicareLevySurcharge, ytdProportion)
        ytdMaxTotalMedicareCharges == NMul(annualTotalMedicareCharges, ytdProportion)
        ytdMaxNet == YtdMaxNet(ytdMaxGross, ytdMaxTax, ytdMaxTotalMedicareCharges)
        ytdMaxSuper == NMul(ytdMaxGross, superRate)
        periodsToDate == PeriodsToDate(payDate, ytdStartDate, inp.payFrequency)
        ytdGross == MathMin(NMul(grossPay, periodsToDate), ytdMaxGross)
        ytdTax == MathMin(NMul(taxPerPeriod, periodsToDate), ytdMaxTax)
        ytdMedicareLevy ==
            MathMin(NMul(medicareLevyPerPeriod, periodsToDate), ytdMaxMedicareLevy)
        ytdMedicareLevySurcharge ==
            MathMin(NMul(medicareLevySurchargePerPeriod, periodsToDate),
                    ytdMaxMedicareLevySurcharge)
        ytdTotalMedicareCharges ==
            MathMin(NMul(totalMedicareChargesPerPeriod, periodsToDate),
                    ytdMaxTotalMedicareCharges)
        ytdNet == MathMin(NMul(netPay, periodsToDate), ytdMaxNet)
        ytdSuper == MathMin(NMul(superannuation, periodsToDate), ytdMaxSuper)
        hourlyRate == HourlyRate(effectiveAnnualSalary, fullTimeHours, fte)
    IN  [grossPay |-> grossPay,
         taxableIncome |-> grossPay,
         tax |-> taxPerPeriod,
         medicareLevy |-> medicareLevyPerPeriod,
         medicareLevySurcharge |-> medicareLevySurchargePerPeriod,
         totalMedicareCharges |-> totalMedicareChargesPerPeriod,
         netIncome |-> netPay,
         superannuation |-> superannuation,
         annualLeaveAccrual |-> annualLeaveAccrualHours,
         hoursWorked |-> hoursPerPeriod,
         hourlyRate |-> hourlyRate,
         ytd |-> [gross |-> ytdGross,
                  tax |-> ytdTax,
                  medicareLevy |-> ytdMedicareLevy,
                  medicareLevySurcharge |-> ytdMedicareLevySurcharge,
                  totalMedicareCharges |-> ytdTotalMedicareCharges,
                  net |-> ytdNet,
                  super |-> ytdSuper],
         periodsPerYear |-> periodsPerYear,
         payPeriodDays |-> payPeriodDays,
         periodsToDate |-> periodsToDate,
         effectiveAnnualSalary |-> effectiveAnnualSalary,
         fte |-> fte]

\* mutant: incomplete input clears the stored result
calculateResults_ClearsOnMissing(inp, prev, zone) ==
    IF MissingRequired(inp) THEN Null ELSE ComputeResults(inp, zone)

\* mutant: the year-to-date block of an earlier result is kept
calculateResults_KeepsYtd(inp, prev, zone) ==
    IF MissingRequired(inp) THEN prev
    ELSE IF prev = Null THEN ComputeResults(inp, zone)
    ELSE [ComputeResults(inp, zone) EXCEPT !.ytd = prev.ytd]

\* the value of the results state after calculateResults() has run with the
\* inputs inp and the results prev
calculateResults(inp, prev, zone) ==
    IF MissingRequired(inp) THEN prev ELSE ComputeResults(inp, zone)


(***************************************************************************)
(* The tools page (ToolsPage): the usage counts kept in localStorage under *)
(* the key 'tool-usage-counts'.                                            *)
(***************************************************************************)
\* toolsData: the ids of the tools, all of status 'ready'
ToolIds == {"pay-calculator"}

\* the value of a localStorage key: getItem gives null when it is not present
NoItem == [present |-> FALSE, value |-> ""]
Item(s) == [present |-> TRUE, value |-> s]

\* if (savedUsage): neither null nor the empty string
Truthy(item) == item.present /\ item.value # ""

\* A Record<string, number> is the sequence of its [key, value] entries in
\* insertion order, the order JSON.stringify writes them in.
\* the object {}
NoCounts == << >>

HasKey(usageCounts, key) ==
    \E i \in 1 .. Len(usageCounts) : usageCounts[i].key = key

\* usageCounts[toolId] || 0
CountOf(usageCounts, toolId) ==
    IF HasKey(usageCounts, toolId)
    THEN usageCounts[CHOOSE i \in 1 .. Len(usageCounts) : usageCounts[i].key = toolId].value
    ELSE 0

\* usageCounts[key] = value: in place for a key the object has, else appended
Assign(usageCounts, key, value) ==
    IF HasKey(usageCounts, key)
    THEN [i \in 1 .. Len(usageCounts) |->
             IF usageCounts[i].key = key THEN [key |-> key, value |-> value]
             ELSE usageCounts[i]]
    ELSE Append(usageCounts, [key |-> key, value |-> value])

DigitChar(d) == SubSeq("0123456789", d + 1, d + 1)

\* String(n) for a natural n
RECURSIVE ToDecimal(_)
ToDecimal(n) ==
    IF n < 10 THEN DigitChar(n) ELSE ToDecimal(n \div 10) \o DigitChar(n % 10)

\* the natural number written by a string of digits
RECURSIVE DecimalValue(_)
DecimalValue(s) ==
    IF Len(s) = 0 THEN 0
    ELSE DecimalValue(SubSeq(s, 1, Len(s) - 1)) * 10 + DigitVal(Char(s, Len(s)))

\* the entries of usageCounts from the i-th on as JSON members
RECURSIVE JsonMembers(_, _)
JsonMembers(usageCounts, i) ==
    IF i > Len(usageCounts) THEN ""
    ELSE (IF i > 1 THEN "," ELSE "")
         \o "\"" \o usageCounts[i].key \o "\":" \o ToDecimal(usageCounts[i].value)
         \o JsonMembers(usageCounts, i + 1)

\* JSON.stringify(usageCounts)
JsonStringify(usageCounts) == "{" \o JsonMembers(usageCounts, 1) \o "}"

\* the first index from i on where s has the character c; 0 when there is none
RECURSIVE IndexOf(_, _, _)
IndexOf(s, c, i) ==
    IF i > Len(s) THEN 0
    ELSE IF Char(s, i) = c THEN i
    ELSE IndexOf(s, c, i + 1)

\* the index after the run of digits of s that starts at i
RECURSIVE DigitsEnd(_, _)
DigitsEnd(s, i) == IF Char(s, i) \in Digits THEN DigitsEnd(s, i + 1) ELSE i

JsonThrows == [ok |-> FALSE, value |-> NoCounts]

\* the members "key":number of s from index i on, up to the closing brace,
\* assigned to acc in turn
RECURSIVE ParseMembers(_, _, _)
ParseMembers(s, i, acc) ==
    LET q == IndexOf(s, "\"", i + 1)
        e == DigitsEnd(s, q + 2)
    IN  IF Char(s, i) # "\"" \/ q = 0 \/ Char(s, q + 1) # ":" THEN JsonThrows
        ELSE IF e = q + 2 \/ (Char(s, q + 2) = "0" /\ e > q + 3) THEN JsonThrows
        ELSE LET next == Assign(acc, SubSeq(s, i + 1, q - 1),
                                DecimalValue(SubSeq(s, q + 2, e - 1)))
             IN  IF Char(s, e) = "," THEN ParseMembers(s, e + 1, next)
                 ELSE IF Char(s, e) = "}" /\ e = Len(s)
                      THEN [ok |-> TRUE, value |-> next]
                 ELSE JsonThrows

\* JSON.parse(s) for objects of natural numbers, the texts JSON.stringify
\* writes here; ok is FALSE when it throws
JsonParse(s) ==
    IF s = "{}" THEN [ok |-> TRUE, value |-> NoCounts]
    ELSE IF Char(s, 1) = "{" THEN ParseMembers(s, 2, NoCounts)
    ELSE JsonThrows

\* the usageCounts of trackToolUsage after its read of the stored item
ReadUsageCounts(item) ==
    IF Truthy(item) /\ JsonParse(item.value).ok
    THEN JsonParse(item.value).value
    ELSE NoCounts

(***************************************************************************)
(* The component PayslipCalculator.                                        *)
(*   inputs, results  the two useState cells                               *)
(*   pc               "effect": a render has committed and its effect      *)
(*                    (calculateResults) has not run yet; "idle": it has   *)
(*   tz               the browser's time zone (hours east of UTC)          *)
(*   nChanges         the input events so far (bounds the run)             *)
(*   probe, out       arguments and values of the calculation functions    *)
(*                    applied on their own (FnSpec)                        *)
(* The tools page, open in the tabs of one browser.                        *)
(*   localStorage     the item 'tool-usage-counts' of the origin's storage *)
(*   pages            per tab: at ("mount": rendered, mount effect not yet *)
(*                    run; "idle"; "tracking": trackToolUsage has read the *)
(*                    item and not yet written it; "away": the tab shows   *)
(*                    another page), the usageCounts local of a running    *)
(*                    trackToolUsage, and tools[0].usageCount              *)
(*   tracked          the tracked clicks so far, with those the stored     *)
(*                    item already counted at the start                    *)
(***************************************************************************)
VARIABLES inputs, results, pc, tz, nChanges, probe, out,
          localStorage, pages, tracked

vars == <<inputs, results, pc, tz, nChanges, probe, out,
          localStorage, pages, tracked>>

calcVars == <<inputs, results, pc, tz, nChanges, probe, out>>

pageVars == <<localStorage, pages, tracked>>

\* the tabs of the browser that can show the tools page
MaxTabs == 2
Tabs == 1 .. MaxTabs

\* tracked clicks of one run
MaxClicks == 10

\* no tab shows the tools page and nothing is stored
NoToolsPage ==
    /\ localStorage = NoItem
    /\ pages = [p \in Tabs |-> [at |-> "away", usageCounts |-> NoCounts, usageCount |-> 0]]
    /\ tracked = 0

\* input events of one run
MaxChanges == 5

\* incomes tried around each table boundary: boundary + j/2, j in -Radius..Radius
Radius == 2

\* the salaries CalcSpec draws: k * SalaryStep for k in 0..SalarySteps
SalaryStep == 30001
SalarySteps == 4

TimeZones == {-5, 10}

StringFields ==
    {"payFrequency", "payDate", "periodEndDate", "annualSalary",
     "employmentStartDate", "taxYear", "fullTimeHours", "fte"}

\* the strings an input event may carry, per field
FieldValues(field) ==
    CASE field = "payFrequency" -> PayFrequencies
      [] field = "taxYear" -> TaxYears
      [] field = "payDate" -> {"", "2025-08-15", "2025-13-45"}
      [] field = "periodEndDate" -> {"", "2025-08-14"}
      [] field = "employmentStartDate" -> {"", "2024-03-01", "2025-07-20"}
      [] field = "annualSalary" -> {"", "abc", "30001", "120000"}
      [] field = "fullTimeHours" -> {"38", "40"}
      [] field = "fte" -> {"1.0", "0.5", "0"}

\* useState's initial inputs
InitialInputs ==
    [payFrequency |-> "fortnightly",
     payDate |-> "",
     periodEndDate |-> "",
     annualSalary |-> "",
     employmentStartDate |-> "",
     taxYear |-> "2025-26",
     fullTimeHours |-> "38",
     fte |-> "1.0",
     hasPrivateHealthInsurance |-> FALSE]

NoProbe == [fn |-> "none"]

\* the component as mounted, in a browser on Australian Eastern time
Init ==
    /\ inputs = InitialInputs
    /\ results = Null
    /\ pc = "effect"
    /\ tz \in {z \in TimeZones : z > 0}
    /\ nChanges = 0
    /\ probe = NoProbe
    /\ out = NoProbe
    /\ NoToolsPage

\* handleInputChange(field, value) from a text, date or select element
HandleInputChange(field, value) ==
    /\ pc = "idle"
    /\ nChanges < MaxChanges
    /\ value # inputs[field]
    /\ inputs' = [inputs EXCEPT ![field] = value]
    /\ pc' = "effect"
    /\ nChanges' = nChanges + 1
    /\ UNCHANGED <<results, tz, probe, out, pageVars>>

\* handleInputChange('hasPrivateHealthInsurance', e.target.checked)
HandleCheckbox ==
    /\ pc = "idle"
    /\ nChanges < MaxChanges
    /\ inputs' = [inputs EXCEPT !.hasPrivateHealthInsurance = ~@]
    /\ pc' = "effect"
    /\ nChanges' = nChanges + 1
    /\ UNCHANGED <<results, tz, probe, out, pageVars>>

\* useEffect(() => { calculateResults(); }, [calculateResults])
Effect ==
    /\ pc = "effect"
    /\ results' = calculateResults(inputs, results, tz)
    /\ pc' = "idle"
    /\ UNCHANGED <<inputs, tz, nChanges, probe, out, pageVars>>

Next ==
    \/ \E field \in StringFields : \E value \in FieldValues(field) :
           HandleInputChange(field, value)
    \/ HandleCheckbox
    \/ Effect

Spec == Init /\ [][Next]_vars

(***************************************************************************)
(* CalcSpec: calculateResults on every complete input record of a bounded  *)
(* set, each reached by input events (the render that follows the last of  *)
(* them has committed; its effect has not run).                            *)
(***************************************************************************)
CalcSalaries == {ToDecimal(k * SalaryStep) : k \in 0 .. SalarySteps}

CalcInputs ==
    [payFrequency : PayFrequencies,
     payDate : {"2025-08-15", "2026-02-10"},
     periodEndDate : {"2025-08-14"},
     annualSalary : CalcSalaries,
     employmentStartDate : {"2024-03-01", "2025-07-20"},
     taxYear : TaxYears,
     fullTimeHours : {"38", "40"},
     fte : {"1.0", "0.5", "0"},
     hasPrivateHealthInsurance : BOOLEAN]

CalcInit ==
    /\ inputs \in CalcInputs
    /\ results = Null
    /\ pc = "effect"
    /\ tz \in TimeZones
    /\ nChanges = 0
    /\ probe = NoProbe
    /\ out = NoProbe
    /\ NoToolsPage

CalcNext == Effect

CalcSpec == CalcInit /\ [][CalcNext]_vars

(***************************************************************************)
(* SlipSpec: calculateResults on payslips dated around the start of the     *)
(* financial year and around the employment start, with the fullTimeHours  *)
(* and fte fields also left empty or filled with text.                     *)
(***************************************************************************)
\* a period end before every pay date drawn below, and one after some
PeriodEndDates == {"2025-06-30", "2025-07-14"}

SlipInputs ==
    [payFrequency : PayFrequencies,
     payDate : {"2025-07-01", "2025-07-15", "2026-02-10"},
     periodEndDate : PeriodEndDates,
     annualSalary : {"90000", "120000"},
     employmentStartDate : {"2024-03-01", "2025-07-20"},
     taxYear : TaxYears,
     fullTimeHours : {"38", "abc"},
     fte : {"1.0", "0.5", ""},
     hasPrivateHealthInsurance : BOOLEAN]

SlipInit ==
    /\ inputs \in SlipInputs
    /\ results = Null
    /\ pc = "effect"
    /\ tz \in TimeZones
    /\ nChanges = 0
    /\ probe = NoProbe
    /\ out = NoProbe
    /\ NoToolsPage

SlipNext == Effect

SlipSpec == SlipInit /\ [][SlipNext]_vars

(***************************************************************************)
(* FnSpec: the calculation functions applied to incomes a <= b drawn       *)
(* around every boundary of the year's tables.                             *)
(***************************************************************************)
\* the finite boundaries of the year's tables (and 0)
Boundaries(year) ==
    {Int2Num(0), medicareLevyThresholds(year).lower, medicareLevyThresholds(year).upper}
    \cup {taxBrackets(year)[i].max : i \in 1 .. Len(taxBrackets(year)) - 1}
    \cup {mlsThresholds(year)[i].max : i \in 1 .. Len(mlsThresholds(year)) - 1}

\* j / 2
Halves(j) == IF j < 0 THEN MkNum(TRUE, BFromNat(0 - j), <<2>>)
             ELSE MkNum(FALSE, BFromNat(j), <<2>>)

Incomes(year) ==
    {NAdd(x, Halves(j)) : x \in Boundaries(year), j \in (0 - Radius) .. Radius}

FnInit ==
    /\ inputs = InitialInputs
    /\ results = Null
    /\ pc = "idle"
    /\ tz \in {z \in TimeZones : z > 0}
    /\ nChanges = 0
    /\ \E year \in TaxYears : \E a \in Incomes(year) : \E b \in Incomes(year) :
          /\ NLeq(a, b)
          /\ probe = [fn |-> "args", a |-> a, b |-> b, year |-> year]
    /\ out = NoProbe
    /\ NoToolsPage

ApplyTax(frequency) ==
    /\ probe.fn = "args" /\ out = NoProbe
    /\ out' = [fn |-> "tax",
               a |-> calculateTax(probe.a, probe.year),
               b |-> calculateTax(probe.b, probe.year),
               frequency |-> frequency,
               perPeriod |-> TaxPerPeriod(probe.a, probe.year, frequency)]
    /\ UNCHANGED <<inputs, results, pc, tz, nChanges, probe, pageVars>>

ApplyLevy ==
    /\ probe.fn = "args" /\ out = NoProbe
    /\ out' = [fn |-> "levy",
               a |-> calculateMedicareLevy(probe.a, probe.year),
               b |-> calculateMedicareLevy(probe.b, probe.year)]
    /\ UNCHANGED <<inputs, results, pc, tz, nChanges, probe, pageVars>>

ApplySurcharge(hasInsurance) ==
    /\ probe.fn = "args" /\ out = NoProbe
    /\ out' = [fn |-> "surcharge",
               hasInsurance |-> hasInsurance,
               a |-> calculateMedicareLevySurcharge(probe.a, probe.year, hasInsurance),
               b |-> calculateMedicareLevySurcharge(probe.b, probe.year, hasInsurance)]
    /\ UNCHANGED <<inputs, results, pc, tz, nChanges, probe, pageVars>>

FnNext ==
    \/ \E frequency \in PayFrequencies : ApplyTax(frequency)
    \/ ApplyLevy
    \/ \E hasInsurance \in BOOLEAN : ApplySurcharge(hasInsurance)

FnSpec == FnInit /\ [][FnNext]_vars

(***************************************************************************)
(* PageSpec: the tools page open in the tabs of one browser. Tabs run in   *)
(* separate event loops and localStorage has no lock, so another tab's     *)
(* handler can run between the getItem and the setItem of trackToolUsage.  *)
(***************************************************************************)
\* what the item holds when the first tab opens: nothing, the counts of an
\* earlier session (of this tool, of another tool as well, or of another tool
\* only), the empty string, or text that is not JSON
StoredItems ==
    {NoItem,
     Item(""),
     Item("{}"),
     Item("{\"pay-calculator\":2}"),
     Item("{\"mortgage-calculator\":5,\"pay-calculator\":1}"),
     Item("{\"pay-calculator\":1,\"mortgage-calculator\":5}"),
     Item("{\"mortgage-calculator\":5}"),
     Item("oops")}

PageInit ==
    /\ inputs = InitialInputs
    /\ results = Null
    /\ pc = "idle"
    /\ tz \in {z \in TimeZones : z > 0}
    /\ nChanges = 0
    /\ probe = NoProbe
    /\ out = NoProbe
    /\ localStorage \in StoredItems
    /\ pages = [p \in Tabs |-> [at |-> "mount", usageCounts |-> NoCounts, usageCount |-> 0]]
    /\ tracked = CountOf(ReadUsageCounts(localStorage), "pay-calculator")

\* the mount effect: the stored count, if it parses, becomes the shown one
Mount(p) ==
    /\ pages[p].at = "mount"
    /\ pages' = [pages EXCEPT
                    ![p].at = "idle",
                    ![p].usageCount =
                        IF Truthy(localStorage) /\ JsonParse(localStorage.value).ok
                        THEN CountOf(JsonParse(localStorage.value).value, "pay-calculator")
                        ELSE @]
    /\ UNCHANGED <<localStorage, tracked, calcVars>>

\* a click on the card of a 'ready' tool; trackToolUsage(toolId) up to its
\* read: getItem and JSON.parse into usageCounts ({} when absent or not JSON)
TrackRead(p, toolId) ==
    /\ pages[p].at = "idle"
    /\ tracked < MaxClicks
    /\ pages' = [pages EXCEPT
                    ![p].at = "tracking",
                    ![p].usageCounts = ReadUsageCounts(localStorage)]
    /\ tracked' = tracked + 1
    /\ UNCHANGED <<localStorage, calcVars>>

\* mutant: a fresh object with the one count, the other entries dropped
Incremented_DropsOthers(usageCounts, toolId) ==
    <<[key |-> toolId, value |-> CountOf(usageCounts, toolId) + 1]>>

\* usageCounts with usageCounts[toolId] = (usageCounts[toolId] || 0) + 1
Incremented(usageCounts, toolId) ==
    Assign(usageCounts, toolId, CountOf(usageCounts, toolId) + 1)

\* trackToolUsage from the increment on: setItem, setTools; the Link then
\* leaves the tools page, or (a click that opens the tool in a new tab) the
\* page stays
TrackWrite(p, toolId) ==
    /\ pages[p].at = "tracking"
    /\ LET usageCounts == Incremented(pages[p].usageCounts, toolId)
       IN  /\ localStorage' = Item(JsonStringify(usageCounts))
           /\ \E at \in {"away", "idle"} :
               pages' = [pages EXCEPT
                           ![p].at = at,
                           ![p].usageCounts = NoCounts,
                           ![p].usageCount = CountOf(usageCounts, toolId)]
    /\ UNCHANGED <<tracked, calcVars>>

\* "Back to Tools": the tools page is mounted anew, with toolsData's counts
BackToTools(p) ==
    /\ pages[p].at = "away"
    /\ pages' = [pages EXCEPT ![p].at = "mount", ![p].usageCount = 0]
    /\ UNCHANGED <<localStorage, tracked, calcVars>>

PageNext ==
    \E p \in Tabs :
        \/ Mount(p)
        \/ \E toolId \in ToolIds : TrackRead(p, toolId)
        \/ \E toolId \in ToolIds : TrackWrite(p, toolId)
        \/ BackToTools(p)

PageSpec == PageInit /\ [][PageNext]_vars

(***************************************************************************)
(* OnePageSpec: the tools page in a single tab, the only reader and writer *)
(* of the stored item.                                                     *)
(***************************************************************************)
OnePageInit ==
    /\ inputs = InitialInputs
    /\ results = Null
    /\ pc = "idle"
    /\ tz \in {z \in TimeZones : z > 0}
    /\ nChanges = 0
    /\ probe = NoProbe
    /\ out = NoProbe
    /\ localStorage \in StoredItems
    /\ pages = [p \in Tabs |->
                  [at |-> IF p = 1 THEN "mount" ELSE "away",
                   usageCounts |-> NoCounts, usageCount |-> 0]]
    /\ tracked = CountOf(ReadUsageCounts(localStorage), "pay-calculator")

OnePageNext ==
    \/ Mount(1)
    \/ \E toolId \in ToolIds : TrackRead(1, toolId)
    \/ \E toolId \in ToolIds : TrackWrite(1, toolId)
    \/ BackToTools(1)

OnePageSpec == OnePageInit /\ [][OnePageNext]_vars

(***************************************************************************)
(* Properties.                                                             *)
(***************************************************************************)
\* every required field is present and parses: a number, and three dates
ValidInput(inp) ==
    /\ ~MissingRequired(inp)
    /\ IsNum(ParseFloat(inp.annualSalary))
    /\ NewDate(inp.payDate).valid
    /\ NewDate(inp.periodEndDate).valid
    /\ NewDate(inp.employmentStartDate).valid

\* a required field is present and does not parse
Unparseable(inp) ==
    /\ ~MissingRequired(inp)
    /\ \/ IsNaN(ParseFloat(inp.annualSalary))
       \/ ~NewDate(inp.payDate).valid
       \/ ~NewDate(inp.periodEndDate).valid
       \/ ~NewDate(inp.employmentStartDate).valid

\* the result of the current inputs has been stored
Computed == pc = "idle" /\ ValidInput(inputs) /\ results # Null

\* C1: for every complete, valid input the stored result has
\* netIncome = grossPay - tax - totalMedicareCharges, and totalMedicareCharges
\* is the per-period Medicare levy plus the per-period surcharge.
C1_NetIncomeIdentity ==
    Computed =>
        /\ NEq(results.netIncome,
               NSub(NSub(results.grossPay, results.tax), results.totalMedicareCharges))
        /\ NEq(results.totalMedicareCharges,
               NAdd(results.medicareLevy, results.medicareLevySurcharge))

\* a result whose tax, levy and surcharge are all non-zero
C1_Witness ==
    /\ Computed
    /\ ~IsZero(results.tax)
    /\ ~IsZero(results.medicareLevy)
    /\ ~IsZero(results.medicareLevySurcharge)

\* C2: calculateResults run with a required field empty leaves the stored
\* results as they were (the previous result, or null).
C2_MissingFieldKeepsResults ==
    [][(pc = "effect" /\ MissingRequired(inputs)) => results' = results]_vars

\* the effect has run on incomplete inputs and an earlier result is still stored
C2_Witness ==
    /\ pc = "idle"
    /\ MissingRequired(inputs)
    /\ results # Null
    /\ nChanges > 0

\* C3 (as claimed): calculateResults run with a required field present but
\* unparseable leaves the stored results unchanged.
C3_UnparseableKeepsResults ==
    [][(pc = "effect" /\ Unparseable(inputs)) => results' = results]_vars

\* C4 (as claimed): no state pairs complete inputs with a result that is not
\* the computation from exactly those inputs.
C4_NeverStale ==
    (~MissingRequired(inputs) /\ results # Null) =>
        results = ComputeResults(inputs, tz)

\* C4 (amended): once the effect of the render that followed an input change
\* has run, complete inputs are paired with the whole result record computed
\* from them; no field is carried over from an earlier computation.
C4_EffectRecomputesWhole ==
    (pc = "idle" /\ ~MissingRequired(inputs)) =>
        results = ComputeResults(inputs, tz)

\* a recomputation after the inputs were already complete: the insurance box
\* was ticked as the last of the run's input events
C4_Witness ==
    /\ pc = "idle"
    /\ ValidInput(inputs)
    /\ inputs.hasPrivateHealthInsurance
    /\ nChanges = MaxChanges
    /\ results = ComputeResults(inputs, tz)

\* C5 (as claimed): an fte input of 0 gives effectiveAnnualSalary, grossPay and
\* hoursWorked of 0.
C5_ZeroFteYieldsZero ==
    (Computed /\ IsZero(ParseFloat(inputs.fte))) =>
        /\ IsZero(results.effectiveAnnualSalary)
        /\ IsZero(results.grossPay)
        /\ IsZero(results.hoursWorked)

\* bracket i of the year's table holds income in its [min, max]
InBracket(year, i, income) ==
    /\ NLeq(taxBrackets(year)[i].min, income)
    /\ NLeq(income, taxBrackets(year)[i].max)

\* C6: calculateTax returns offset + (income - min + 1) * rate of the bracket
\* whose [min, max] holds the income; an income equal to a bracket's max is
\* taxed with that bracket.
C6_TaxOfContainingBracket ==
    out.fn = "tax" =>
        \A i \in 1 .. Len(taxBrackets(probe.year)) :
            InBracket(probe.year, i, probe.a) =>
                LET b == taxBrackets(probe.year)[i]
                IN  NEq(out.a,
                        NAdd(b.offset,
                             NMul(NAdd(NSub(probe.a, b.min), Int2Num(1)), b.rate)))

\* the tax of an income that is exactly the max of the third bracket
C6_Witness ==
    /\ out.fn = "tax"
    /\ NEq(probe.a, taxBrackets(probe.year)[3].max)
    /\ ~IsZero(out.a)

\* C7 (as claimed): every income >= 0, whole or not, lies in the [min, max] of
\* exactly one bracket of the year's table.
C7_ExactlyOneBracket ==
    (out.fn = "tax" /\ NGeq(probe.a, Int2Num(0))) =>
        Cardinality({i \in 1 .. Len(taxBrackets(probe.year)) :
                        InBracket(probe.year, i, probe.a)}) = 1

\* C8: with the 2025-26 table an income <= 18200 has annual tax 0 and
\* per-period tax 0.
C8_TaxFreeThreshold ==
    (out.fn = "tax" /\ probe.year = "2025-26" /\ NLeq(probe.a, Int2Num(18200))) =>
        /\ IsZero(out.a)
        /\ IsZero(out.perPeriod)

\* the tax of exactly 18200 under the 2025-26 table
C8_Witness ==
    /\ out.fn = "tax"
    /\ probe.year = "2025-26"
    /\ NEq(probe.a, Int2Num(18200))

\* C9: for incomes a <= b of one tax year, levy(a) <= levy(b).
C9_LevyMonotone ==
    (out.fn = "levy" /\ NLeq(probe.a, probe.b)) => NLeq(out.a, out.b)

\* a inside the tapered band, b above the upper threshold
C9_Witness ==
    /\ out.fn = "levy"
    /\ NLt(medicareLevyThresholds(probe.year).lower, probe.a)
    /\ NLt(probe.a, medicareLevyThresholds(probe.year).upper)
    /\ NLt(medicareLevyThresholds(probe.year).upper, probe.b)
    /\ NLt(out.a, out.b)

\* C10: with hasPrivateHealthInsurance the result's medicareLevySurcharge and
\* ytd.medicareLevySurcharge are 0 and totalMedicareCharges is medicareLevy.
C10_InsuredNoSurcharge ==
    (Computed /\ inputs.hasPrivateHealthInsurance) =>
        /\ IsZero(results.medicareLevySurcharge)
        /\ IsZero(results.ytd.medicareLevySurcharge)
        /\ NEq(results.totalMedicareCharges, results.medicareLevy)

\* an insured income that the surcharge table would charge
C10_Witness ==
    /\ Computed
    /\ inputs.hasPrivateHealthInsurance
    /\ ~IsZero(results.medicareLevy)
    /\ NGt(results.effectiveAnnualSalary,
           mlsThresholds(inputs.taxYear)[1].max)

\* the annual figure behind each year-to-date field of the stored result
AnnualFigures ==
    LET income == results.effectiveAnnualSalary
        tax == calculateTax(income, inputs.taxYear)
        levy == calculateMedicareLevy(income, inputs.taxYear)
        surcharge == calculateMedicareLevySurcharge(income, inputs.taxYear,
                                                    inputs.hasPrivateHealthInsurance)
        total == NAdd(levy, surcharge)
    IN  [gross |-> income,
         tax |-> tax,
         medicareLevy |-> levy,
         medicareLevySurcharge |-> surcharge,
         totalMedicareCharges |-> total,
         net |-> NSub(NSub(income, tax), total),
         super |-> NMul(income, superRates(inputs.taxYear))]

YtdFields ==
    {"gross", "tax", "medicareLevy", "medicareLevySurcharge",
     "totalMedicareCharges", "net", "super"}

\* C11: for every complete input each year-to-date field is at most its annual
\* figure times ytdProportion, ytdProportion = elapsed days / 365.25.
C11_YtdCapped ==
    Computed =>
        \A f \in YtdFields :
            NLeq(results.ytd[f], NMul(AnnualFigures[f], YtdProportion(inputs, tz)))

\* the cap is what is stored: periods-to-date times the per-period gross would
\* have been more than the prorated salary
C11_Witness ==
    /\ Computed
    /\ NGt(NMul(results.grossPay, results.periodsToDate),
           NMul(results.effectiveAnnualSalary, YtdProportion(inputs, tz)))
    /\ NEq(results.ytd.gross,
           NMul(results.effectiveAnnualSalary, YtdProportion(inputs, tz)))
    /\ ~IsZero(results.ytd.tax)

\* the worked scenario of the specification has been computed
Scenario ==
    /\ Computed
    /\ inputs.annualSalary = "90000"
    /\ inputs.fte = "1.0"
    /\ inputs.fullTimeHours = "38"
    /\ inputs.payFrequency = "fortnightly"
    /\ inputs.taxYear = "2025-26"
    /\ inputs.hasPrivateHealthInsurance

\* |x - cents/100| <= 0.01
WithinOneCent(x, cents) ==
    /\ NLeq(NSub(x, Dec(cents, 100)), Dec(1, 100))
    /\ NLeq(NSub(Dec(cents, 100), x), Dec(1, 100))

\* the bracket (45001-135000, 0.30, 4288) is the one applied and the annual
\* tax, the per-period tax times the periods of a year, is 17788
ScenarioAnnualTax ==
    /\ FirstBracket(taxBrackets(inputs.taxYear), results.effectiveAnnualSalary, 1) = 3
    /\ taxBrackets(inputs.taxYear)[3] = Bracket(45001, Int2Num(135000), Dec(30, 100), 4288)
    /\ NEq(NMul(results.tax, results.periodsPerYear), Int2Num(17788))

\* C12 (as claimed): in the scenario the annual tax is 17788, grossPay is
\* 3449.59 and the per-period tax is 681.72, each to within one cent, and the
\* surcharge is 0.
C12_ScenarioAsClaimed ==
    Scenario =>
        /\ ScenarioAnnualTax
        /\ WithinOneCent(results.grossPay, 344959)
        /\ WithinOneCent(results.tax, 68172)
        /\ IsZero(results.medicareLevySurcharge)

\* C12 (amended): as claimed, with a per-period tax of 681.79 = 17788 / 26.09.
C12_Scenario ==
    Scenario =>
        /\ ScenarioAnnualTax
        /\ WithinOneCent(results.grossPay, 344959)
        /\ WithinOneCent(results.tax, 68179)
        /\ IsZero(results.medicareLevySurcharge)

\* the scenario computed, its per-period tax being the annual 17788 over 26.09
C12_Witness ==
    /\ Scenario
    /\ NEq(results.tax, NDiv(Int2Num(17788), Dec(2609, 100)))
    /\ NEq(results.grossPay, NDiv(Int2Num(90000), Dec(2609, 100)))

\* C13 (as claimed): the stored result is a function of the input record and
\* the tables alone: the same inputs give the same record in whichever
\* browser (time zone) the engine is invoked.
C13_FunctionOfInputsAndTables ==
    Computed => \A zone \in TimeZones : results = ComputeResults(inputs, zone)

\* C14: with the other inputs the same, the result for fte 0.5 has half the
\* effectiveAnnualSalary and half the hoursWorked of the result for fte 1.0.
C14_HalfFteHalves ==
    (Computed /\ inputs.fte = "0.5") =>
        LET full == ComputeResults([inputs EXCEPT !.fte = "1.0"], tz)
        IN  /\ NEq(NMul(Int2Num(2), results.effectiveAnnualSalary),
                   full.effectiveAnnualSalary)
            /\ NEq(NMul(Int2Num(2), results.hoursWorked), full.hoursWorked)

\* a half-time result: 45000 of a salary of 90000, 19 hours of a 38-hour week
C14_Witness ==
    /\ Computed
    /\ inputs.fte = "0.5"
    /\ inputs.payFrequency = "weekly"
    /\ NEq(results.effectiveAnnualSalary, Int2Num(45000))
    /\ NEq(results.hoursWorked, Int2Num(19))

\* the inputs with an unparseable fullTimeHours replaced by "38" and an
\* unparseable fte by "1.0"
WithDefaults(inp) ==
    [inp EXCEPT
        !.fullTimeHours = IF IsNaN(ParseFloat(@)) THEN "38" ELSE @,
        !.fte = IF IsNaN(ParseFloat(@)) THEN "1.0" ELSE @]

\* the fields of a result record that the two parsed values enter
HoursAndFteFields(r) ==
    {r.grossPay, r.tax, r.netIncome, r.superannuation, r.annualLeaveAccrual,
     r.hoursWorked, r.hourlyRate, r.effectiveAnnualSalary, r.fte,
     r.ytd.gross, r.ytd.net}

\* C15: with fullTimeHours or fte unparseable, no field of the result is NaN
\* and the result is the one computed for fullTimeHours "38", fte "1.0".
C15_UnparseableFallsBack ==
    (Computed /\ WithDefaults(inputs) # inputs) =>
        /\ \A x \in HoursAndFteFields(results) : ~IsNaN(x)
        /\ results = ComputeResults(WithDefaults(inputs), tz)

\* both fields unparseable: 38 hours a week at fte 1
C15_Witness ==
    /\ Computed
    /\ inputs.fullTimeHours = "abc"
    /\ inputs.fte = ""
    /\ inputs.payFrequency = "weekly"
    /\ NEq(results.hoursWorked, Int2Num(38))
    /\ NEq(results.fte, Int2Num(1))

\* no trackToolUsage is between its read and its write
NoneTracking == \A p \in Tabs : pages[p].at # "tracking"

\* C16 (as claimed): under every interleaving of the tabs no increment is
\* lost: once every started trackToolUsage has finished, the stored count of
\* the tool is the number of tracked clicks on it.
C16_NoLostIncrement ==
    (NoneTracking /\ tracked > 0) =>
        CountOf(ReadUsageCounts(localStorage), "pay-calculator") = tracked

\* the day number of the calendar date written in a date field
CalendarDay(s) == NewDate(s).t \div 24

\* 1 July of the pay date's calendar year, or of the year before when the pay
\* date falls before July, as a day number
CalendarFinancialYearStart(s) ==
    LET ymd == CivilFromDays(CalendarDay(s))
    IN  DaysFromCivil(IF ymd.m < 7 THEN ymd.y - 1 ELSE ymd.y, 7, 1)

\* whole days from the later of employment start and financial-year start to
\* the pay date
CalendarElapsedDays(inp) ==
    LET fyStart == CalendarFinancialYearStart(inp.payDate)
        employmentStart == CalendarDay(inp.employmentStartDate)
        ytdStart == IF employmentStart > fyStart THEN employmentStart ELSE fyStart
    IN  CalendarDay(inp.payDate) - ytdStart

\* C17 (as claimed): periodsToDate = floor(elapsedDays / periodDays) + 1 with
\* elapsedDays counted between the calendar dates of the inputs.
C17_PeriodsToDate ==
    Computed =>
        LET periodDays == PayPeriodDaysFrac(inputs.payFrequency)
        IN  NEq(results.periodsToDate,
                Int2Num(((CalendarElapsedDays(inputs) * periodDays.d)
                            \div periodDays.n) + 1))

\* C18: for every complete input ytd.net = ytd.gross - ytd.tax -
\* ytd.totalMedicareCharges and ytd.totalMedicareCharges = ytd.medicareLevy +
\* ytd.medicareLevySurcharge.
C18_YtdConsistent ==
    Computed =>
        /\ NEq(results.ytd.net,
               NSub(NSub(results.ytd.gross, results.ytd.tax),
                    results.ytd.totalMedicareCharges))
        /\ NEq(results.ytd.totalMedicareCharges,
               NAdd(results.ytd.medicareLevy, results.ytd.medicareLevySurcharge))

\* a capped year-to-date record with tax, levy and surcharge all charged
C18_Witness ==
    /\ Computed
    /\ NLt(results.ytd.gross, NMul(results.grossPay, results.periodsToDate))
    /\ ~IsZero(results.ytd.tax)
    /\ ~IsZero(results.ytd.medicareLevy)
    /\ ~IsZero(results.ytd.medicareLevySurcharge)

\* C19 (as claimed): for every complete input with annualSalary >= 0, a pay
\* date before the employment start included, periodsToDate >= 1 and no
\* year-to-date field is negative.
C19_YtdNonNegative ==
    (Computed /\ NGeq(ParseFloat(inputs.annualSalary), Int2Num(0))) =>
        /\ NGeq(results.periodsToDate, Int2Num(1))
        /\ \A f \in YtdFields : NGeq(results.ytd[f], Int2Num(0))

\* C20 (as claimed): for incomes 0 <= a <= b of one tax year, whole or
\* fractional, calculateTax(a) <= calculateTax(b).
C20_TaxMonotone ==
    (out.fn = "tax" /\ NGeq(probe.a, Int2Num(0)) /\ NLeq(probe.a, probe.b)) =>
        NLeq(out.a, out.b)

\* C21: a complete input and the inputs that differ from it only in a
\* non-empty periodEndDate, parseable or not, give the same result record.
C21_PeriodEndDateIgnored ==
    Computed =>
        \A d \in (PeriodEndDates \cup {"2025-13-45"}) \ {inputs.periodEndDate} :
            results = ComputeResults([inputs EXCEPT !.periodEndDate = d], tz)

\* a result computed with the period end after the pay date, with year-to-date
\* amounts, equal to the one for the period end before it
C21_Witness ==
    /\ Computed
    /\ inputs.periodEndDate = "2025-07-14"
    /\ inputs.payDate = "2025-07-01"
    /\ ~IsZero(results.ytd.gross)
    /\ results = ComputeResults([inputs EXCEPT !.periodEndDate = "2025-06-30"], tz)

\* the count the stored item holds for a tool: 0 when the item is absent,
\* does not parse or has no entry for the tool
StoredCount(item, toolId) == CountOf(ReadUsageCounts(item), toolId)

\* the tools with an entry in the stored item before or after a step
StoredIds(before, after) ==
    {ReadUsageCounts(before)[i].key : i \in 1 .. Len(ReadUsageCounts(before))}
    \cup {ReadUsageCounts(after)[i].key : i \in 1 .. Len(ReadUsageCounts(after))}

\* C22: in a single tools-page instance, once the mount effect has run and
\* between trackToolUsage calls the usageCount in page state is the stored
\* count of the tool (0 when absent or unparseable), and a trackToolUsage(id)
\* call raises the stored and the shown count of id by exactly 1 and leaves
\* the stored count of every other tool as it was.
C22_ShownIsStored ==
    /\ [](pages[1].at = "idle" =>
            pages[1].usageCount = StoredCount(localStorage, "pay-calculator"))
    /\ [][(pages[1].at = "tracking" /\ pages'[1].at # "tracking") =>
            /\ StoredCount(localStorage', "pay-calculator")
                   = StoredCount(localStorage, "pay-calculator") + 1
            /\ pages'[1].usageCount = StoredCount(localStorage', "pay-calculator")
            /\ \A id \in StoredIds(localStorage, localStorage') \ {"pay-calculator"} :
                   StoredCount(localStorage', id) = StoredCount(localStorage, id)]_vars

\* two tracked clicks later the page shows 2 and another tool's 5 is kept
C22_Witness ==
    /\ pages[1].at = "idle"
    /\ pages[1].usageCount = 2
    /\ tracked = 2
    /\ localStorage = Item("{\"mortgage-calculator\":5,\"pay-calculator\":2}")

\* C23: for complete inputs with a non-zero fte, hourlyRate is annualSalary /
\* (52.18 * fullTimeHours), and so is the hourlyRate of the inputs that differ
\* only in having another non-zero fte.
C23_HourlyRateWithoutFte ==
    (Computed /\ ~IsZero(ParseFloat(inputs.fte))) =>
        /\ NEq(results.hourlyRate,
               NDiv(ParseFloat(inputs.annualSalary),
                    NMul(Dec(5218, 100), ParseFullTimeHours(inputs.fullTimeHours))))
        /\ \A fte \in {"1.0", "0.5"} \ {inputs.fte} :
               NEq(results.hourlyRate,
                   ComputeResults([inputs EXCEPT !.fte = fte], tz).hourlyRate)

\* a half-time result with a non-zero hourly rate
C23_Witness ==
    /\ Computed
    /\ inputs.fte = "0.5"
    /\ inputs.fullTimeHours = "40"
    /\ ~IsZero(results.hourlyRate)
    /\ NEq(results.hourlyRate,
           ComputeResults([inputs EXCEPT !.fte = "1.0"], tz).hourlyRate)

============================================================================
